---- MODULE Spec2Model ----
(***************************************************************************)
(* Model of backends/xla/xla.go: the PJRT plugin discovery cache           *)
(* (GetAvailablePlugins), the configuration parsing, plugin selection and  *)
(* client construction of NewWithOptions, and the Backend handle.          *)
(*                                                                         *)
(* Go strings are sequences of one-character strings, so that              *)
(* strings.Split works on the characters of its input.  A slice is a       *)
(* header [arr, len] into a heap of backing arrays (all slices of this     *)
(* file start at offset 0, so cap(s) is the length of the backing array).  *)
(* Every function runs as a sequence of steps of a thread; a step is one   *)
(* access to shared memory (the package variable availablePluginsList, a   *)
(* backing array, the process-wide logging sink) together with the local   *)
(* computation that follows it.  The pc labels are the source lines.       *)
(***************************************************************************)
EXTENDS Integers, Sequences, FiniteSets, TLC

(* ------------------------------ strings -------------------------------- *)

Comma == ","
EmptyStr == << >>

cuda == <<"c", "u", "d", "a">>
cpu == <<"c", "p", "u">>
tpu == <<"t", "p", "u">>
rocm == <<"r", "o", "c", "m">>
supress_logging ==
  <<"s", "u", "p", "r", "e", "s", "s", "_", "l", "o", "g", "g", "i", "n", "g">>

BackendName == <<"x", "l", "a">>

(* Mutant: the preference order reversed. *)
MutDefaultPluginsReversed == <<cpu, cuda>>

(* DefaultPlugins, in preference order. *)
DefaultPlugins == <<cuda, cpu>>

(* ------------------------------ bounds --------------------------------- *)

(* Top-level calls (GetAvailablePlugins, NewWithOptions) per behaviour. *)
MaxCalls == 2
(* Threads of the concurrent specification. *)
NumThreads == 2
(* Comma-separated segments of a configuration string given to a build. *)
MaxSegs == 2
(* Length of the configuration strings of the parsing specification. *)
MaxLen == 5

(* Plugin names the scanner can find on the filesystem: all of them in    *)
(* the specifications of the cache, three of them where plugins are built. *)
Discoverable == {cuda, cpu, tpu, rocm}
BuildDiscoverable == {cuda, cpu, tpu}

RECURSIVE Join(_)
Join(segs) ==
  IF Len(segs) = 0 THEN EmptyStr
  ELSE IF Len(segs) = 1 THEN segs[1]
  ELSE segs[1] \o <<Comma>> \o Join(Tail(segs))

(* Configuration strings given to NewWithOptions: a plugin name (none, a   *)
(* preferred one, one that is never found), then option segments (empty,   *)
(* the known token, an unknown one).                                       *)
NameSegments == {EmptyStr, cuda, cpu, rocm}
OptionSegments == {EmptyStr, supress_logging, cpu}

BuildConfigs ==
  { Join(segs) : segs \in
      UNION { { f \in [1..n -> NameSegments \cup OptionSegments] :
                  /\ f[1] \in NameSegments
                  /\ \A k \in 2..n : f[k] \in OptionSegments } :
              n \in 1..MaxSegs } }

(* Configuration strings of the parsing specification: every string over   *)
(* a comma and two letters.                                                *)
ParseAlphabet == {Comma, "a", "b"}
ParseInputs == UNION { [1..n -> ParseAlphabet] : n \in 0..MaxLen }

(* ------------------------- strings.Split etc. -------------------------- *)

(* Index of the first comma of s, 0 when there is none. *)
FirstComma(s) ==
  IF \E k \in 1..Len(s) : s[k] = Comma
  THEN CHOOSE k \in 1..Len(s) : s[k] = Comma /\ \A j \in 1..(k - 1) : s[j] # Comma
  ELSE 0

(* strings.Split(s, ","): the substrings between the commas; [s] when s    *)
(* has no comma (also for the empty s).                                    *)
RECURSIVE Split(_)
Split(s) ==
  LET k == FirstComma(s) IN
  IF k = 0 THEN <<s>>
  ELSE <<SubSeq(s, 1, k - 1)>> \o Split(SubSeq(s, k + 1, Len(s)))

IsEmptyStr(s) == s = EmptyStr

(* Mutant: no segment is deleted. *)
MutDeleteNothing(parts) == parts

(* slices.DeleteFunc(parts[1:], func(s) { return s == "" }) *)
DeleteEmpty(parts) == SelectSeq(parts, LAMBDA s : ~IsEmptyStr(s))

(* slices.Index(s, v): 0-based index of the first v in s, -1 if absent. *)
Index(s, v) ==
  IF \E k \in 1..Len(s) : s[k] = v
  THEN (CHOOSE k \in 1..Len(s) : s[k] = v /\ \A j \in 1..(k - 1) : s[j] # v) - 1
  ELSE -1

(* Lines 31-37: the plugin name and the plugin options of a configuration. *)
ParsedName(config) ==
  LET parts == Split(config) IN
  IF Len(parts) > 1 THEN parts[1] ELSE config

(* Mutant: the first segment is not cut off the options. *)
MutParsedOptionsAll(config) ==
  LET parts == Split(config) IN
  IF Len(parts) > 1 THEN DeleteEmpty(parts) ELSE << >>

ParsedOptions(config) ==
  LET parts == Split(config) IN
  IF Len(parts) > 1 THEN DeleteEmpty(Tail(parts)) ELSE << >>

(* ------------------------------- state --------------------------------- *)

VARIABLES
  threads,               \* the threads of the process
  initDone,              \* whether the package's init() has run
  registry,              \* keys registered with backends.Register, in order
  fs,                    \* plugin names pjrt.AvailablePlugins finds right now
  heap,                  \* backing arrays of []string slices
  availablePluginsList,  \* the package variable (a slice header)
  backends,              \* the Backend objects allocated so far
  suppressing,           \* threads inside pjrt.SuppressAbseilLoggingHack
  pc,                    \* pc[t]: the source line thread t is at
  loc,                   \* loc[t]: the parameters and locals of t's call
  calls,                 \* top-level calls started
  scanLog,               \* the name sets pjrt.AvailablePlugins returned
  rets                   \* the values GetAvailablePlugins returned, by value

vars ==
  <<threads, initDone, registry, fs, heap, availablePluginsList, backends,
    suppressing, pc, loc, calls, scanLog, rets>>

NilSlice == [arr |-> 0, len |-> 0]

NoPanic ==
  [kind |-> "none", backend |-> EmptyStr, name |-> EmptyStr, plugins |-> << >>]

(* The locals of a call that has just started. *)
Frame(op, config) ==
  [op |-> op, config |-> config,
   pluginName |-> EmptyStr, pluginOptions |-> << >>, plugins |-> NilSlice,
   pluginNames |-> {}, i |-> 0, iter |-> {}, cur |-> EmptyStr,
   tmp |-> NilSlice, ret |-> NilSlice,
   plugin |-> EmptyStr, client |-> "nil", err |-> "nil",
   backend |-> 0, supressLogging |-> FALSE,
   panic |-> NoPanic, result |-> 0, trace |-> << >>]

(* The elements of slice s in heap h. *)
SliceVal(h, s) == IF s.arr = 0 THEN << >> ELSE SubSeq(h[s.arr], 1, s.len)

Cap(h, s) == IF s.arr = 0 THEN 0 ELSE Len(h[s.arr])

(* make([]string, 0, n): a new backing array of n zero values. *)
MakeArray(h, n) == Append(h, [k \in 1..n |-> EmptyStr])

(* append(s, x) on heap h: in place when the capacity allows, else into a  *)
(* new array of twice the capacity (one, from zero).                       *)
AppendHeap(h, s, x) ==
  IF s.len < Cap(h, s)
  THEN [h EXCEPT ![s.arr][s.len + 1] = x]
  ELSE LET newcap == IF Cap(h, s) = 0 THEN 1 ELSE 2 * Cap(h, s) IN
       Append(h, [k \in 1..newcap |->
                    IF k <= s.len THEN h[s.arr][k]
                    ELSE IF k = s.len + 1 THEN x ELSE EmptyStr])

AppendSlice(h, s, x) ==
  IF s.len < Cap(h, s)
  THEN [arr |-> s.arr, len |-> s.len + 1]
  ELSE [arr |-> Len(h) + 1, len |-> s.len + 1]

Idle(t) == pc[t] \in {"idle", "done"}

InitCommon ==
  /\ initDone = FALSE
  /\ registry = << >>
  /\ heap = << >>
  /\ availablePluginsList = NilSlice
  /\ backends = << >>
  /\ suppressing = {}
  /\ calls = 0
  /\ scanLog = << >>
  /\ rets = << >>

Init ==
  /\ InitCommon
  /\ fs \in SUBSET BuildDiscoverable
  /\ threads = {1}
  /\ pc = [t \in threads |-> "idle"]
  /\ loc = [t \in threads |-> Frame("none", EmptyStr)]

(* ------------------------------- init() -------------------------------- *)

(* Mutant: the constructor is registered twice. *)
MutPackageInitTwice ==
  /\ ~initDone
  /\ initDone' = TRUE
  /\ registry' = registry \o <<BackendName, BackendName>>
  /\ UNCHANGED <<threads, fs, heap, availablePluginsList, backends,
                 suppressing, pc, loc, calls, scanLog, rets>>

(* Lines 82-84: backends.Register(BackendName, New), before any call. *)
PackageInit ==
  /\ ~initDone
  /\ initDone' = TRUE
  /\ registry' = Append(registry, BackendName)
  /\ UNCHANGED <<threads, fs, heap, availablePluginsList, backends,
                 suppressing, pc, loc, calls, scanLog, rets>>

(* The filesystem changes between two calls (a change during a call is    *)
(* seen by the call's scan or by none, like a change before or after it). *)
FsChange(d) ==
  /\ initDone
  /\ calls < MaxCalls
  /\ \A t \in threads : Idle(t)
  /\ d # fs
  /\ fs' = d
  /\ UNCHANGED <<threads, initDone, registry, heap, availablePluginsList,
                 backends, suppressing, pc, loc, calls, scanLog, rets>>

(* ------------------------- GetAvailablePlugins ------------------------- *)

StartGet(t) ==
  /\ initDone
  /\ Idle(t)
  /\ calls < MaxCalls
  /\ calls' = calls + 1
  /\ loc' = [loc EXCEPT ![t] = Frame("GetAvailablePlugins", EmptyStr)]
  /\ pc' = [pc EXCEPT ![t] = "L105"]
  /\ UNCHANGED <<threads, initDone, registry, fs, heap, availablePluginsList,
                 backends, suppressing, scanLog, rets>>

(* Line 105: is there a cached result? *)
CacheHit(s) == s.len > 0

GetCheck(t) ==
  /\ pc[t] = "L105"
  /\ pc' = [pc EXCEPT ![t] =
              IF CacheHit(availablePluginsList) THEN "L107" ELSE "L110"]
  /\ UNCHANGED <<threads, initDone, registry, fs, heap, availablePluginsList,
                 backends, suppressing, loc, calls, scanLog, rets>>

(* return s: to the caller at line 39 when called from NewWithOptions. *)
ReturnFromGet(t, s) ==
  /\ rets' = Append(rets, SliceVal(heap, s))
  /\ IF loc[t].op = "NewWithOptions"
     THEN /\ loc' = [loc EXCEPT ![t].plugins = s,
                                ![t].trace = Append(@, "GetAvailablePlugins")]
          /\ pc' = [pc EXCEPT ![t] = "L40"]
     ELSE /\ loc' = [loc EXCEPT ![t].ret = s]
          /\ pc' = [pc EXCEPT ![t] = "done"]

(* Line 107 *)
GetCached(t) ==
  /\ pc[t] = "L107"
  /\ ReturnFromGet(t, availablePluginsList)
  /\ UNCHANGED <<threads, initDone, registry, fs, heap, availablePluginsList,
                 backends, suppressing, calls, scanLog>>

(* Lines 110-111: the scan, and the set of the names found. *)
Scan(t) ==
  /\ pc[t] = "L110"
  /\ loc' = [loc EXCEPT ![t].pluginNames = fs]
  /\ scanLog' = Append(scanLog, fs)
  /\ pc' = [pc EXCEPT ![t] = "L112"]
  /\ UNCHANGED <<threads, initDone, registry, fs, heap, availablePluginsList,
                 backends, suppressing, calls, rets>>

(* Line 112 *)
Make(t) ==
  /\ pc[t] = "L112"
  /\ heap' = MakeArray(heap, Cardinality(loc[t].pluginNames))
  /\ availablePluginsList' = [arr |-> Len(heap) + 1, len |-> 0]
  /\ loc' = [loc EXCEPT ![t].i = 1]
  /\ pc' = [pc EXCEPT ![t] = "L115"]
  /\ UNCHANGED <<threads, initDone, registry, fs, backends, suppressing,
                 calls, scanLog, rets>>

(* Lines 115-116: the next default plugin, if the scan found it. *)
DefaultLoop(t) ==
  /\ pc[t] = "L115"
  /\ IF loc[t].i > Len(DefaultPlugins)
     THEN /\ loc' = [loc EXCEPT ![t].iter = loc[t].pluginNames]
          /\ pc' = [pc EXCEPT ![t] = "L123"]
     ELSE IF DefaultPlugins[loc[t].i] \in loc[t].pluginNames
     THEN /\ loc' = [loc EXCEPT ![t].cur = DefaultPlugins[loc[t].i]]
          /\ pc' = [pc EXCEPT ![t] = "L117"]
     ELSE /\ loc' = [loc EXCEPT ![t].i = @ + 1]
          /\ UNCHANGED pc
  /\ UNCHANGED <<threads, initDone, registry, fs, heap, availablePluginsList,
                 backends, suppressing, calls, scanLog, rets>>

(* Lines 117 and 124: append reads its argument availablePluginsList ... *)
AppendRead(t) ==
  /\ pc[t] \in {"L117", "L124"}
  /\ loc' = [loc EXCEPT ![t].tmp = availablePluginsList]
  /\ pc' = [pc EXCEPT ![t] = IF pc[t] = "L117" THEN "L117w" ELSE "L124w"]
  /\ UNCHANGED <<threads, initDone, registry, fs, heap, availablePluginsList,
                 backends, suppressing, calls, scanLog, rets>>

(* Mutant: line 118 is missing, the name stays in pluginNames. *)
MutAppendDefaultNoDelete(t) ==
  /\ pc[t] = "L117w"
  /\ heap' = AppendHeap(heap, loc[t].tmp, loc[t].cur)
  /\ availablePluginsList' = AppendSlice(heap, loc[t].tmp, loc[t].cur)
  /\ loc' = [loc EXCEPT ![t].i = @ + 1]
  /\ pc' = [pc EXCEPT ![t] = "L115"]
  /\ UNCHANGED <<threads, initDone, registry, fs, backends, suppressing,
                 calls, scanLog, rets>>

(* ... and the result is stored back; line 118 deletes the name. *)
AppendDefault(t) ==
  /\ pc[t] = "L117w"
  /\ heap' = AppendHeap(heap, loc[t].tmp, loc[t].cur)
  /\ availablePluginsList' = AppendSlice(heap, loc[t].tmp, loc[t].cur)
  /\ loc' = [loc EXCEPT ![t].pluginNames = @ \ {loc[t].cur}, ![t].i = @ + 1]
  /\ pc' = [pc EXCEPT ![t] = "L115"]
  /\ UNCHANGED <<threads, initDone, registry, fs, backends, suppressing,
                 calls, scanLog, rets>>

(* Line 123: range over the remaining names, in any order. *)
RangeLoop(t) ==
  /\ pc[t] = "L123"
  /\ IF loc[t].iter = {}
     THEN /\ pc' = [pc EXCEPT ![t] = "L126"]
          /\ UNCHANGED loc
     ELSE \E name \in loc[t].iter :
            /\ loc' = [loc EXCEPT ![t].cur = name, ![t].iter = @ \ {name}]
            /\ pc' = [pc EXCEPT ![t] = "L124"]
  /\ UNCHANGED <<threads, initDone, registry, fs, heap, availablePluginsList,
                 backends, suppressing, calls, scanLog, rets>>

(* Line 124 *)
AppendOther(t) ==
  /\ pc[t] = "L124w"
  /\ heap' = AppendHeap(heap, loc[t].tmp, loc[t].cur)
  /\ availablePluginsList' = AppendSlice(heap, loc[t].tmp, loc[t].cur)
  /\ pc' = [pc EXCEPT ![t] = "L123"]
  /\ UNCHANGED <<threads, initDone, registry, fs, backends, suppressing,
                 loc, calls, scanLog, rets>>

(* Line 126 *)
GetReturn(t) ==
  /\ pc[t] = "L126"
  /\ ReturnFromGet(t, availablePluginsList)
  /\ UNCHANGED <<threads, initDone, registry, fs, heap, availablePluginsList,
                 backends, suppressing, calls, scanLog>>

(* --------------------------- NewWithOptions ---------------------------- *)

PanicOf(kind, name, plugins) ==
  [kind |-> kind, backend |-> BackendName, name |-> name, plugins |-> plugins]

(* panic(p): the call ends without a result. *)
Panics(t, p) ==
  /\ loc' = [loc EXCEPT ![t].panic = p]
  /\ pc' = [pc EXCEPT ![t] = "done"]

StartNew(t, config) ==
  /\ initDone
  /\ Idle(t)
  /\ calls < MaxCalls
  /\ calls' = calls + 1
  /\ loc' = [loc EXCEPT ![t] = Frame("NewWithOptions", config)]
  /\ pc' = [pc EXCEPT ![t] = "L31"]
  /\ UNCHANGED <<threads, initDone, registry, fs, heap, availablePluginsList,
                 backends, suppressing, scanLog, rets>>

(* Lines 31-39: split the configuration, then call GetAvailablePlugins. *)
Parse(t) ==
  /\ pc[t] = "L31"
  /\ loc' = [loc EXCEPT ![t].pluginName = ParsedName(loc[t].config),
                        ![t].pluginOptions = ParsedOptions(loc[t].config)]
  /\ pc' = [pc EXCEPT ![t] = "L105"]
  /\ UNCHANGED <<threads, initDone, registry, fs, heap, availablePluginsList,
                 backends, suppressing, calls, scanLog, rets>>

(* Mutant: the default is the last available plugin. *)
MutResolutionLast(pluginName, plugins) ==
  IF Len(plugins) = 0
  THEN [panic |-> PanicOf("NoPluginsFound", EmptyStr, << >>),
        pluginName |-> pluginName]
  ELSE IF pluginName = EmptyStr
  THEN [panic |-> NoPanic, pluginName |-> plugins[Len(plugins)]]
  ELSE IF Index(plugins, pluginName) = -1
  THEN [panic |-> PanicOf("PluginNotFound", pluginName, plugins),
        pluginName |-> pluginName]
  ELSE [panic |-> NoPanic, pluginName |-> pluginName]

(* Mutant: the named plugin is looked for before the empty list is seen. *)
MutResolutionNameFirst(pluginName, plugins) ==
  IF pluginName # EmptyStr /\ Index(plugins, pluginName) = -1
  THEN [panic |-> PanicOf("PluginNotFound", pluginName, plugins),
        pluginName |-> pluginName]
  ELSE IF Len(plugins) = 0
  THEN [panic |-> PanicOf("NoPluginsFound", EmptyStr, << >>),
        pluginName |-> pluginName]
  ELSE IF pluginName = EmptyStr
  THEN [panic |-> NoPanic, pluginName |-> plugins[1]]
  ELSE [panic |-> NoPanic, pluginName |-> pluginName]

(* Mutant: the message of PluginNotFound leaves out the available plugins. *)
MutResolutionNoList(pluginName, plugins) ==
  IF Len(plugins) = 0
  THEN [panic |-> PanicOf("NoPluginsFound", EmptyStr, << >>),
        pluginName |-> pluginName]
  ELSE IF pluginName = EmptyStr
  THEN [panic |-> NoPanic, pluginName |-> plugins[1]]
  ELSE IF Index(plugins, pluginName) = -1
  THEN [panic |-> PanicOf("PluginNotFound", pluginName, << >>),
        pluginName |-> pluginName]
  ELSE [panic |-> NoPanic, pluginName |-> pluginName]

(* Mutant: a named plugin is not looked for in the list. *)
MutResolutionNoCheck(pluginName, plugins) ==
  IF Len(plugins) = 0
  THEN [panic |-> PanicOf("NoPluginsFound", EmptyStr, << >>),
        pluginName |-> pluginName]
  ELSE IF pluginName = EmptyStr
  THEN [panic |-> NoPanic, pluginName |-> plugins[1]]
  ELSE [panic |-> NoPanic, pluginName |-> pluginName]

(* Lines 40-49: no plugins at all, the default plugin, or the named one:   *)
(* the panic raised, if any, and the plugin name after line 49.            *)
Resolution(pluginName, plugins) ==
  IF Len(plugins) = 0
  THEN [panic |-> PanicOf("NoPluginsFound", EmptyStr, << >>),
        pluginName |-> pluginName]
  ELSE IF pluginName = EmptyStr
  THEN [panic |-> NoPanic, pluginName |-> plugins[1]]
  ELSE IF Index(plugins, pluginName) = -1
  THEN [panic |-> PanicOf("PluginNotFound", pluginName, plugins),
        pluginName |-> pluginName]
  ELSE [panic |-> NoPanic, pluginName |-> pluginName]

Resolve(t) ==
  /\ pc[t] = "L40"
  /\ LET r == Resolution(loc[t].pluginName, SliceVal(heap, loc[t].plugins)) IN
     /\ loc' = [loc EXCEPT ![t].pluginName = r.pluginName,
                           ![t].panic = r.panic]
     /\ pc' = [pc EXCEPT ![t] = IF r.panic = NoPanic THEN "L51" ELSE "done"]
  /\ UNCHANGED <<threads, initDone, registry, fs, heap, availablePluginsList,
                 backends, suppressing, calls, scanLog, rets>>

(* Mutant: the error of pjrt.GetPlugin is not looked at. *)
MutGetPluginIgnoresError(t) ==
  /\ pc[t] = "L51"
  /\ \E ok \in BOOLEAN :
       loc' = [loc EXCEPT
                 ![t].plugin = IF ok THEN loc[t].pluginName ELSE EmptyStr,
                 ![t].trace = Append(@, "GetPlugin")]
  /\ pc' = [pc EXCEPT ![t] = "L56"]
  /\ UNCHANGED <<threads, initDone, registry, fs, heap, availablePluginsList,
                 backends, suppressing, calls, scanLog, rets>>

(* Lines 51-54: pjrt.GetPlugin succeeds or fails. *)
GetPlugin(t) ==
  /\ pc[t] = "L51"
  /\ \E ok \in BOOLEAN :
       IF ok
       THEN /\ loc' = [loc EXCEPT ![t].plugin = loc[t].pluginName,
                                  ![t].trace = Append(@, "GetPlugin")]
            /\ pc' = [pc EXCEPT ![t] = "L56"]
       ELSE /\ loc' = [loc EXCEPT
                 ![t].trace = Append(@, "GetPlugin"),
                 ![t].panic = PanicOf("PluginLookupFailed", EmptyStr, << >>)]
            /\ pc' = [pc EXCEPT ![t] = "done"]
  /\ UNCHANGED <<threads, initDone, registry, fs, heap, availablePluginsList,
                 backends, suppressing, calls, scanLog, rets>>

(* Mutant: every plugin but cuda gets the logging hack. *)
MutNeedsLoggingHackNotCuda(pluginName) == pluginName # cuda

(* Line 56: which plugin gets the logging hack. *)
NeedsLoggingHack(pluginName) == pluginName = cpu

(* Line 58: pjrt.SuppressAbseilLoggingHack (of gopjrt) suppresses the      *)
(* logging, calls the function it was given, and restores the logging      *)
(* when that function returns.                                             *)
EnterSuppress(t) ==
  /\ pc[t] = "L56"
  /\ NeedsLoggingHack(loc[t].pluginName)
  /\ suppressing' = suppressing \cup {t}
  /\ loc' = [loc EXCEPT ![t].trace = Append(@, "Suppress.enter")]
  /\ pc' = [pc EXCEPT ![t] = "L59"]
  /\ UNCHANGED <<threads, initDone, registry, fs, heap, availablePluginsList,
                 backends, calls, scanLog, rets>>

(* plugin.NewClient(options) returns a client or an error. *)
NewClient(t, next) ==
  /\ \E ok \in BOOLEAN :
       loc' = [loc EXCEPT ![t].client = IF ok THEN "client" ELSE "nil",
                          ![t].err = IF ok THEN "nil" ELSE "err",
                          ![t].trace = Append(@, "NewClient")]
  /\ pc' = [pc EXCEPT ![t] = next]

(* Mutant: a construction error panics inside the function given to the  *)
(* hack, so the hack never gets to restore the logging.                   *)
MutConstructSuppressedPanics(t) ==
  /\ pc[t] = "L59"
  /\ \E ok \in BOOLEAN :
       IF ok
       THEN /\ loc' = [loc EXCEPT ![t].client = "client",
                                  ![t].trace = Append(@, "NewClient")]
            /\ pc' = [pc EXCEPT ![t] = "L60"]
       ELSE /\ loc' = [loc EXCEPT
                 ![t].err = "err",
                 ![t].trace = Append(@, "NewClient"),
                 ![t].panic = PanicOf("ClientConstructionFailed", EmptyStr, << >>)]
            /\ pc' = [pc EXCEPT ![t] = "done"]
  /\ UNCHANGED <<threads, initDone, registry, fs, heap, availablePluginsList,
                 backends, suppressing, calls, scanLog, rets>>

(* Line 59: the client is constructed inside the hack ... *)
ConstructSuppressed(t) ==
  /\ pc[t] = "L59"
  /\ NewClient(t, "L60")
  /\ UNCHANGED <<threads, initDone, registry, fs, heap, availablePluginsList,
                 backends, suppressing, calls, scanLog, rets>>

(* Line 60: ... the function returns, and the hack stops suppressing. *)
ExitSuppress(t) ==
  /\ pc[t] = "L60"
  /\ suppressing' = suppressing \ {t}
  /\ loc' = [loc EXCEPT ![t].trace = Append(@, "Suppress.exit")]
  /\ pc' = [pc EXCEPT ![t] = "L64"]
  /\ UNCHANGED <<threads, initDone, registry, fs, heap, availablePluginsList,
                 backends, calls, scanLog, rets>>

(* Line 62: any other plugin's client is constructed directly. *)
ConstructDirect(t) ==
  /\ pc[t] = "L56"
  /\ ~NeedsLoggingHack(loc[t].pluginName)
  /\ NewClient(t, "L64")
  /\ UNCHANGED <<threads, initDone, registry, fs, heap, availablePluginsList,
                 backends, suppressing, calls, scanLog, rets>>

(* Mutant: the option token is not looked at. *)
MutSupressLoggingFlagNoToken(pluginName, pluginOptions) == pluginName = cuda

(* Line 71: the supressLogging field of the new Backend. *)
SupressLoggingFlag(pluginName, pluginOptions) ==
  pluginName = cuda \/ Index(pluginOptions, supress_logging) # -1

(* Mutant: the construction error is not looked at. *)
MutFinishIgnoresError(t) ==
  /\ pc[t] = "L64"
  /\ backends' = Append(backends,
       [plugin |-> loc[t].plugin,
        client |-> loc[t].client,
        pluginName |-> loc[t].pluginName,
        supressLogging |->
          SupressLoggingFlag(loc[t].pluginName, loc[t].pluginOptions)])
  /\ loc' = [loc EXCEPT ![t].result = Len(backends) + 1]
  /\ pc' = [pc EXCEPT ![t] = "done"]
  /\ UNCHANGED <<threads, initDone, registry, fs, heap, availablePluginsList,
                 suppressing, calls, scanLog, rets>>

(* Lines 64-72: the construction error, or the new Backend. *)
Finish(t) ==
  /\ pc[t] = "L64"
  /\ IF loc[t].err # "nil"
     THEN /\ Panics(t, PanicOf("ClientConstructionFailed", EmptyStr, << >>))
          /\ UNCHANGED backends
     ELSE /\ backends' = Append(backends,
               [plugin |-> loc[t].plugin,
                client |-> loc[t].client,
                pluginName |-> loc[t].pluginName,
                supressLogging |->
                  SupressLoggingFlag(loc[t].pluginName, loc[t].pluginOptions)])
          /\ loc' = [loc EXCEPT ![t].result = Len(backends) + 1]
          /\ pc' = [pc EXCEPT ![t] = "done"]
  /\ UNCHANGED <<threads, initDone, registry, fs, heap, availablePluginsList,
                 suppressing, calls, scanLog, rets>>

(* Mutant: the method has a value receiver, and sets the flag of a copy. *)
MutSupressLoggingOnCopy(t, b, supressLogging) ==
  /\ initDone
  /\ Idle(t)
  /\ calls < MaxCalls
  /\ calls' = calls + 1
  /\ loc' = [loc EXCEPT ![t] = [Frame("SupressLogging", EmptyStr)
                                  EXCEPT !.backend = b,
                                         !.supressLogging = supressLogging,
                                         !.result = b]]
  /\ pc' = [pc EXCEPT ![t] = "done"]
  /\ UNCHANGED <<threads, initDone, registry, fs, heap, availablePluginsList,
                 backends, suppressing, scanLog, rets>>

(* Lines 76-79: Backend.SupressLogging on the Backend b. *)
SupressLogging(t, b, supressLogging) ==
  /\ initDone
  /\ Idle(t)
  /\ calls < MaxCalls
  /\ calls' = calls + 1
  /\ backends' = [backends EXCEPT ![b].supressLogging = supressLogging]
  /\ loc' = [loc EXCEPT ![t] = [Frame("SupressLogging", EmptyStr)
                                  EXCEPT !.backend = b,
                                         !.supressLogging = supressLogging,
                                         !.result = b]]
  /\ pc' = [pc EXCEPT ![t] = "done"]
  /\ UNCHANGED <<threads, initDone, registry, fs, heap, availablePluginsList,
                 suppressing, scanLog, rets>>

(* --------------------------- specifications ---------------------------- *)

(* The steps of a call of GetAvailablePlugins, lines 104-127. *)
GetAvailablePluginsStep ==
  \/ \E t \in threads : GetCheck(t)
  \/ \E t \in threads : GetCached(t)
  \/ \E t \in threads : Scan(t)
  \/ \E t \in threads : Make(t)
  \/ \E t \in threads : DefaultLoop(t)
  \/ \E t \in threads : AppendRead(t)
  \/ \E t \in threads : AppendDefault(t)
  \/ \E t \in threads : RangeLoop(t)
  \/ \E t \in threads : AppendOther(t)
  \/ \E t \in threads : GetReturn(t)

(* The steps of a call of NewWithOptions, lines 30-73. *)
NewWithOptionsStep ==
  \/ \E t \in threads : Parse(t)
  \/ \E t \in threads : Resolve(t)
  \/ \E t \in threads : GetPlugin(t)
  \/ \E t \in threads : EnterSuppress(t)
  \/ \E t \in threads : ConstructSuppressed(t)
  \/ \E t \in threads : ExitSuppress(t)
  \/ \E t \in threads : ConstructDirect(t)
  \/ \E t \in threads : Finish(t)

(* One thread: calls follow one another. *)
Next ==
  \/ PackageInit
  \/ \E d \in SUBSET BuildDiscoverable : FsChange(d)
  \/ \E t \in threads : StartGet(t)
  \/ \E t \in threads, config \in BuildConfigs : StartNew(t, config)
  \/ \E t \in threads, b \in 1..Len(backends), v \in BOOLEAN :
       SupressLogging(t, b, v)
  \/ GetAvailablePluginsStep
  \/ NewWithOptionsStep

Spec == Init /\ [][Next]_vars

(* One thread calling GetAvailablePlugins only, any plugin installed. *)
InitCache ==
  /\ InitCommon
  /\ fs \in SUBSET Discoverable
  /\ threads = {1}
  /\ pc = [t \in threads |-> "idle"]
  /\ loc = [t \in threads |-> Frame("none", EmptyStr)]

NextCache ==
  \/ PackageInit
  \/ \E d \in SUBSET Discoverable : FsChange(d)
  \/ \E t \in threads : StartGet(t)
  \/ GetAvailablePluginsStep

SpecCache == InitCache /\ [][NextCache]_vars

(* Several threads, each calling GetAvailablePlugins, on a filesystem     *)
(* that does not change.                                                   *)
InitConc ==
  /\ InitCommon
  /\ fs \in SUBSET Discoverable
  /\ threads = 1..NumThreads
  /\ pc = [t \in threads |-> "idle"]
  /\ loc = [t \in threads |-> Frame("none", EmptyStr)]

NextConc ==
  \/ PackageInit
  \/ \E t \in threads : StartGet(t)
  \/ GetAvailablePluginsStep

SpecConc == InitConc /\ [][NextConc]_vars

(* The parsing step of NewWithOptions alone, on every short string. *)
InitParse ==
  /\ initDone = TRUE
  /\ registry = <<BackendName>>
  /\ fs \in {{}, {cpu}}
  /\ heap = << >>
  /\ availablePluginsList = NilSlice
  /\ backends = << >>
  /\ suppressing = {}
  /\ calls = 1
  /\ scanLog = << >>
  /\ rets = << >>
  /\ threads = {1}
  /\ pc = [t \in threads |-> "L31"]
  /\ \E config \in ParseInputs :
       loc = [t \in threads |-> Frame("NewWithOptions", config)]

NextParse == \E t \in threads : Parse(t)

SpecParse == InitParse /\ [][NextParse]_vars

(* ------------------------------ properties ----------------------------- *)

Range(seq) == { seq[k] : k \in 1..Len(seq) }

Last(seq) == seq[Len(seq)]

(* The text of a configuration before its first comma. *)
RequestedName(config) ==
  CHOOSE p \in { SubSeq(config, 1, n) : n \in 0..Len(config) } :
    /\ Comma \notin Range(p)
    /\ Len(p) = Len(config) \/ config[Len(p) + 1] = Comma

(* r lists the names of D once each, cuda and cpu first and in that order. *)
PreferenceOrdered(r, D) ==
  LET pre == SelectSeq(<<cuda, cpu>>, LAMBDA n : n \in D) IN
  /\ Len(r) = Cardinality(D)
  /\ Range(r) = D
  /\ SubSeq(r, 1, Len(pre)) = pre

InBuild(t) == loc[t].op = "NewWithOptions"

(* Lines 40-49 of t's build have run. *)
Resolved(t) ==
  InBuild(t) /\ pc[t] \in {"L51", "L56", "L59", "L60", "L64", "done"}

(* t's build has returned a Backend. *)
Built(t) == InBuild(t) /\ pc[t] = "done" /\ loc[t].result # 0

(* t's build has ended in a panic of this kind. *)
Failed(t, kind) == InBuild(t) /\ pc[t] = "done" /\ loc[t].panic.kind = kind

(* C1: all calls of GetAvailablePlugins that follow one another return    *)
(* the same sequence, whatever the filesystem holds at each call.  The    *)
(* code scans again when the cached list is empty, so this fails.         *)
C1_SequentialCallsAgree ==
  \A i, j \in 1..Len(rets) : rets[i] = rets[j]

(* C2: the first call returns the names its scan found, each once, with   *)
(* cuda and cpu (those found) first and in that order; {cpu, tpu} gives   *)
(* [cpu, tpu] and {cpu, cuda, tpu} gives [cuda, cpu, tpu].                *)
C2_PreferenceFirst ==
  Len(rets) >= 1 =>
    /\ PreferenceOrdered(rets[1], scanLog[1])
    /\ scanLog[1] = {cpu, tpu} => rets[1] = <<cpu, tpu>>
    /\ scanLog[1] = {cpu, cuda, tpu} => rets[1] = <<cuda, cpu, tpu>>

C2_Witness ==
  /\ Len(rets) >= 1
  /\ scanLog[1] = {cuda, cpu, tpu, rocm}
  /\ rets[1] = <<cuda, cpu, rocm, tpu>>

(* C3: a build with an empty plugin name that returns a Backend resolves  *)
(* the name to the first available plugin: cuda if it is available, else  *)
(* cpu if it is, else another available one.                              *)
C3_DefaultIsFirstAvailable ==
  \A t \in threads :
    Built(t) /\ RequestedName(loc[t].config) = EmptyStr =>
      LET avail == Last(rets)
          name == backends[loc[t].result].pluginName
      IN /\ name = avail[1]
         /\ cuda \in Range(avail) => name = cuda
         /\ cuda \notin Range(avail) /\ cpu \in Range(avail) => name = cpu
         /\ name \in Range(avail)

C3_Witness ==
  \E t \in threads :
    /\ Built(t)
    /\ loc[t].config = EmptyStr
    /\ Last(rets) = <<cpu, tpu>>
    /\ backends[loc[t].result].pluginName = cpu

(* C4: when no plugin is available a build panics with NoPluginsFound     *)
(* whatever name was asked for, and pjrt.GetPlugin is not called.         *)
C4_NoPluginsFoundFirst ==
  \A t \in threads :
    Resolved(t) /\ Last(rets) = << >> =>
      /\ Failed(t, "NoPluginsFound")
      /\ "GetPlugin" \notin Range(loc[t].trace)
      /\ loc[t].result = 0

C4_Witness ==
  \E t \in threads :
    /\ Failed(t, "NoPluginsFound")
    /\ loc[t].config = cuda
    /\ Last(rets) = << >>

(* C5: a build asking for a name that is not among the available plugins  *)
(* (there being some) panics with PluginNotFound, the panic carrying the  *)
(* name asked for and all the available names; no plugin is looked up and *)
(* no client constructed.                                                 *)
C5_PluginNotFound ==
  \A t \in threads :
    LET name == RequestedName(loc[t].config) IN
    /\ Resolved(t)
    /\ name # EmptyStr
    /\ Last(rets) # << >>
    /\ name \notin Range(Last(rets))
    => /\ Failed(t, "PluginNotFound")
       /\ loc[t].panic.name = name
       /\ loc[t].panic.plugins = Last(rets)
       /\ loc[t].panic.backend = BackendName
       /\ "GetPlugin" \notin Range(loc[t].trace)
       /\ "NewClient" \notin Range(loc[t].trace)
       /\ loc[t].plugin = EmptyStr
       /\ loc[t].client = "nil"
       /\ loc[t].result = 0

C5_Witness ==
  \E t \in threads :
    /\ Failed(t, "PluginNotFound")
    /\ loc[t].config = rocm
    /\ Last(rets) = <<cpu>>
    /\ loc[t].panic.name = rocm
    /\ loc[t].panic.plugins = <<cpu>>

(* C6: the supressLogging field of a Backend a build returns is true      *)
(* exactly when the resolved plugin is cuda or supress_logging is one of  *)
(* the option tokens; "cpu" alone gives false and "cuda" gives true.      *)
C6_SupressLoggingFlag ==
  \A t \in threads :
    Built(t) =>
      LET b == backends[loc[t].result] IN
      /\ b.supressLogging =
           (b.pluginName = cuda \/ supress_logging \in Range(loc[t].pluginOptions))
      /\ loc[t].config = cpu => ~b.supressLogging
      /\ loc[t].config = cuda => b.supressLogging

C6_Witness ==
  \E t \in threads :
    /\ Built(t)
    /\ loc[t].config = Join(<<cpu, supress_logging>>)
    /\ backends[loc[t].result].pluginName = cpu
    /\ backends[loc[t].result].supressLogging

(* C7: no option token that the parsing of a configuration yields is the  *)
(* empty string, doubled and trailing commas included.                    *)
C7_NoEmptyToken ==
  \A t \in threads :
    InBuild(t) /\ pc[t] # "L31" =>
      \A k \in 1..Len(loc[t].pluginOptions) :
        loc[t].pluginOptions[k] # EmptyStr

C7_Witness ==
  \E t \in threads :
    /\ pc[t] = "L105"
    /\ loc[t].config = <<"a", Comma, Comma, "b", Comma>>
    /\ loc[t].pluginOptions = << <<"b">> >>

(* C8: with threads calling GetAvailablePlugins at the same time the      *)
(* scanner runs at most once (no scan finding nothing, which would be     *)
(* repeated by the next call anyway).  Nothing orders the threads' reads  *)
(* and writes of availablePluginsList, so this fails.                     *)
C8_ScanAtMostOnce ==
  (\A k \in 1..Len(scanLog) : scanLog[k] # {}) => Len(scanLog) <= 1

(* C9: with threads calling GetAvailablePlugins at the same time, every   *)
(* call returns the same list, and that is complete, without a name       *)
(* twice, and in preference order.  This fails for the same reason.       *)
C9_AllCallersSameList ==
  /\ \A i \in 1..Len(rets) : PreferenceOrdered(rets[i], fs)
  /\ \A i, j \in 1..Len(rets) : rets[i] = rets[j]

(* C10: the logging is suppressed only inside the hack around the         *)
(* construction of a cpu client, and no longer once the build has         *)
(* returned or panicked.                                                  *)
C10_SuppressionScoped ==
  \A t \in threads :
    /\ t \in suppressing =>
         InBuild(t) /\ pc[t] \in {"L59", "L60"} /\ loc[t].pluginName = cpu
    /\ Idle(t) => t \notin suppressing

C10_Witness ==
  \E t \in threads :
    /\ Failed(t, "ClientConstructionFailed")
    /\ loc[t].pluginName = cpu
    /\ "Suppress.exit" \in Range(loc[t].trace)
    /\ suppressing = {}


(* The kinds of panic a build ends in. *)
PanicKinds ==
  {"NoPluginsFound", "PluginNotFound", "PluginLookupFailed",
   "ClientConstructionFailed"}

(* C11: the step that ends a build either allocates one Backend with its  *)
(* plugin, client, plugin name and flag set and returns it without a      *)
(* panic, or raises one panic of the four kinds and allocates and returns *)
(* nothing; pjrt.GetPlugin and NewClient were each called at most once.   *)
C11_AllOrNothing ==
  [][\A t \in threads :
       InBuild(t) /\ pc[t] # "done" /\ pc'[t] = "done" =>
         /\ Cardinality({k \in 1..Len(loc'[t].trace) :
                           loc'[t].trace[k] = "GetPlugin"}) <= 1
         /\ Cardinality({k \in 1..Len(loc'[t].trace) :
                           loc'[t].trace[k] = "NewClient"}) <= 1
         /\ \/ /\ loc'[t].panic = NoPanic
               /\ Len(backends') = Len(backends) + 1
               /\ loc'[t].result = Len(backends')
               /\ backends'[loc'[t].result].plugin # EmptyStr
               /\ backends'[loc'[t].result].client = "client"
               /\ backends'[loc'[t].result].pluginName # EmptyStr
               /\ backends'[loc'[t].result].supressLogging \in BOOLEAN
            \/ /\ loc'[t].panic.kind \in PanicKinds
               /\ loc'[t].result = 0
               /\ backends' = backends
    ]_vars

C11_Witness ==
  \E t \in threads :
    /\ Failed(t, "PluginLookupFailed")
    /\ loc[t].result = 0
    /\ backends = << >>
    /\ calls = 1


(* C12: the constructor is registered under "xla" once, by init() and     *)
(* before any call; no call registers it again.                           *)
C12_RegisteredOnce ==
  /\ initDone => registry = << <<"x", "l", "a">> >>
  /\ ~initDone =>
       /\ registry = << >>
       /\ calls = 0
       /\ \A t \in threads : pc[t] = "idle"

C12_Witness ==
  /\ registry = <<BackendName>>
  /\ calls = MaxCalls
  /\ \E t \in threads : loc[t].op = "SupressLogging"


(* C13: a call of SupressLogging returns the Backend it was called on,    *)
(* with the flag set to its argument and the plugin, client and plugin    *)
(* name as they were; the other Backends and the cached plugin list are   *)
(* untouched; and no step at all changes the plugin name of a Backend.    *)
C13_SetterFrame ==
  [][/\ \A t \in threads :
          calls' = calls + 1 /\ loc'[t].op = "SupressLogging" =>
            LET b == loc'[t].backend IN
            /\ loc'[t].result = b
            /\ Len(backends') = Len(backends)
            /\ backends'[b].supressLogging = loc'[t].supressLogging
            /\ backends'[b].plugin = backends[b].plugin
            /\ backends'[b].client = backends[b].client
            /\ backends'[b].pluginName = backends[b].pluginName
            /\ \A o \in 1..Len(backends) : o # b => backends'[o] = backends[o]
            /\ availablePluginsList' = availablePluginsList
            /\ heap' = heap
     /\ \A o \in 1..Len(backends) :
          backends'[o].pluginName = backends[o].pluginName
    ]_vars

C13_Witness ==
  \E t \in threads :
    /\ loc[t].op = "SupressLogging"
    /\ loc[t].supressLogging = FALSE
    /\ backends[loc[t].backend].pluginName = cuda
    /\ ~backends[loc[t].backend].supressLogging


(* C14: of calls of GetAvailablePlugins that follow one another only the  *)
(* first runs the scanner, whatever it found.  A scan that found nothing  *)
(* leaves the cache empty, and the next call scans again, so this fails.  *)
C14_ScannedOnce == Len(scanLog) <= 1

(* C15: once a call of GetAvailablePlugins has returned, the cached list  *)
(* holds the names of the scan that built it, each once, and no other     *)
(* name: a preferred name that was not found is not in it.                *)
C15_CachedExactlyDiscovered ==
  \A t \in threads :
    pc[t] = "done" /\ loc[t].op = "GetAvailablePlugins" =>
      LET cached == SliceVal(heap, availablePluginsList)
          D == Last(scanLog)
      IN /\ \A n \in D : Cardinality({k \in 1..Len(cached) : cached[k] = n}) = 1
         /\ \A k \in 1..Len(cached) : cached[k] \in D
         /\ \A n \in {cuda, cpu} \ D : n \notin Range(cached)

C15_Witness ==
  \E t \in threads :
    /\ pc[t] = "done"
    /\ loc[t].op = "GetAvailablePlugins"
    /\ Last(scanLog) = {cpu, rocm}
    /\ SliceVal(heap, availablePluginsList) = <<cpu, rocm>>
    /\ Len(rets) = 2
    /\ Len(scanLog) = 1


IsPrefix(s, r) == Len(s) <= Len(r) /\ SubSeq(r, 1, Len(s)) = s

(* C16: a build calls GetAvailablePlugins, then pjrt.GetPlugin, then      *)
(* NewClient (inside the logging hack or not), in that order: GetPlugin   *)
(* is called with a name of the available list, NewClient and the hack    *)
(* only with the plugin GetPlugin returned; a failed GetPlugin ends the   *)
(* build in PluginLookupFailed, carrying the backend name, with no        *)
(* NewClient and no hack.                                                 *)
C16_StepOrder ==
  \A t \in threads :
    InBuild(t) =>
      LET trace == loc[t].trace IN
      /\ \/ IsPrefix(trace, <<"GetAvailablePlugins", "GetPlugin", "NewClient">>)
         \/ IsPrefix(trace, <<"GetAvailablePlugins", "GetPlugin",
                              "Suppress.enter", "NewClient", "Suppress.exit">>)
      /\ "GetPlugin" \in Range(trace) =>
           loc[t].pluginName \in Range(SliceVal(heap, loc[t].plugins))
      /\ pc[t] \in {"L56", "L59", "L60", "L64"}
           \/ "NewClient" \in Range(trace)
           \/ "Suppress.enter" \in Range(trace)
           => loc[t].plugin = loc[t].pluginName /\ loc[t].plugin # EmptyStr
      /\ Failed(t, "PluginLookupFailed") =>
           /\ trace = <<"GetAvailablePlugins", "GetPlugin">>
           /\ loc[t].panic.backend = BackendName
           /\ loc[t].plugin = EmptyStr
           /\ loc[t].client = "nil"
           /\ t \notin suppressing
      /\ Failed(t, "ClientConstructionFailed") =>
           loc[t].panic.backend = BackendName

C16_Witness ==
  \E t \in threads :
    /\ Failed(t, "PluginLookupFailed")
    /\ loc[t].config = cpu
    /\ loc[t].trace = <<"GetAvailablePlugins", "GetPlugin">>
    /\ Len(backends) = 1


(* The commas of s, and the position of the k-th of them. *)
Commas(s) == {p \in 1..Len(s) : s[p] = Comma}

NthComma(s, k) ==
  CHOOSE p \in Commas(s) : Cardinality({q \in Commas(s) : q < p}) = k - 1

(* The k-th comma-separated segment of s, k in 1..(number of commas + 1). *)
Segment(s, k) ==
  LET n == Cardinality(Commas(s))
      from == IF k = 1 THEN 1 ELSE NthComma(s, k - 1) + 1
      to == IF k = n + 1 THEN Len(s) ELSE NthComma(s, k) - 1
  IN SubSeq(s, from, to)

(* C17: parsing yields as plugin name the text before the first comma     *)
(* (all of the string when there is none), and as options the non-empty   *)
(* segments after the first one, in their order, whatever they are.       *)
C17_ParseResult ==
  \A t \in threads :
    InBuild(t) /\ pc[t] # "L31" =>
      LET s == loc[t].config
          n == Cardinality(Commas(s))
          rest == [k \in 1..n |-> Segment(s, k + 1)]
      IN /\ loc[t].pluginName = Segment(s, 1)
         /\ n = 0 => loc[t].pluginName = s
         /\ loc[t].pluginOptions = SelectSeq(rest, LAMBDA x : x # EmptyStr)

C17_Witness ==
  \E t \in threads :
    /\ pc[t] = "L105"
    /\ loc[t].config = <<Comma, "b", Comma, Comma, "a">>
    /\ loc[t].pluginName = EmptyStr
    /\ loc[t].pluginOptions = << <<"b">>, <<"a">> >>


(* C18: the plugin name of a Backend a build returns is one of the names  *)
(* GetAvailablePlugins returned to that build, asked for or defaulted.    *)
C18_ResolvedIsAvailable ==
  \A t \in threads :
    Built(t) =>
      /\ backends[loc[t].result].pluginName \in Range(Last(rets))
      /\ backends[loc[t].result].pluginName
           \in Range(SliceVal(heap, loc[t].plugins))
      /\ RequestedName(loc[t].config) # EmptyStr =>
           backends[loc[t].result].pluginName = RequestedName(loc[t].config)

C18_Witness ==
  \E t \in threads :
    /\ Built(t)
    /\ loc[t].config = cuda
    /\ Last(rets) = <<cuda, cpu>>
    /\ backends[loc[t].result].pluginName = cuda

(* C19: a build enters the logging hack exactly when it constructs the    *)
(* client of the plugin named cpu, asked for or defaulted; the client of  *)
(* any other plugin is constructed outside it, supress_logging or not.    *)
C19_HackOnlyForCpu ==
  \A t \in threads :
    InBuild(t) =>
      /\ "Suppress.enter" \in Range(loc[t].trace) => loc[t].pluginName = cpu
      /\ "NewClient" \in Range(loc[t].trace) /\ loc[t].pluginName = cpu =>
           "Suppress.enter" \in Range(loc[t].trace)
      /\ Resolved(t) /\ loc[t].pluginName # cpu =>
           /\ t \notin suppressing
           /\ pc[t] \notin {"L59", "L60"}

C19_Witness ==
  \E t \in threads :
    /\ Built(t)
    /\ loc[t].config = <<Comma>> \o supress_logging
    /\ backends[loc[t].result].pluginName = cpu
    /\ "Suppress.enter" \in Range(loc[t].trace)

====
